---- MODULE Spec2Model ----
(***************************************************************************)
(* A model of the concurrent repository harvester of CodeAgent:            *)
(*   - PathFilter        (services/github/utils/path_filter.py)            *)
(*   - retries_wrapper   (services/github/utils/repo_walker.py)            *)
(*   - RepoWalker        (services/github/utils/repo_walker.py)            *)
(* Strings that the code searches with regular expressions are modelled    *)
(* as sequences of one-character strings.                                  *)
(***************************************************************************)
EXTENDS Integers, Sequences, FiniteSets, TLC

VARIABLES
    pathFilter,   \* the PathFilter built by PathFilter.__init__
    fPath,        \* PathFilter.match: the path of the last call ("none" path: <<>>)
    fKind,        \* PathFilter.match: the kind of the last call
    fResult,      \* PathFilter.match: "none" before a call, else "True"/"False"
    scrapePc,     \* RepoWalker.scrape: position of the coroutine
    branchRw,     \* the retries_wrapper frame of getBranch
    tasks,        \* the _walk / _handle_blob coroutines, by the sha of their entry
    bucket,       \* the shared result list
    sem,          \* asyncio.Semaphore: the permits left
    max_workers,  \* RepoWalker._max_workers
    issued,       \* remote calls issued so far, per target
    failed,       \* calls answered with a failure that is no rate limit, per target
    limited,      \* calls answered with a rate-limit failure, per target
    rVariant,     \* a retries_wrapper run alone: "walker" (repo_walker.py) or "utils"
    rRetries,     \* its argument retries
    rFrame,       \* its frame
    last_exception, \* utils/retries_wrapper.py: the local last_exception
    now,          \* time.time(), in seconds since the run began
    rLog,         \* the calls, answers and sleeps of the run, in order
    rError,       \* the type of the exception the run has raised, "none" before
    sText,        \* IdentitySplitter.split_text: the argument text
    sResult,      \* IdentitySplitter.split_text: whether it was called, and the list returned
    hFiles,       \* _handle_blob runs alone: the path and fetched blob of each
    hState        \* _handle_blob runs alone: "fetched", then "returned"

filterVars == <<fPath, fKind, fResult>>
walkVars == <<scrapePc, branchRw, tasks, bucket, sem, max_workers, issued, failed, limited>>
retryVars == <<rVariant, rRetries, rFrame, last_exception, now, rLog, rError>>
splitVars == <<sText, sResult>>
blobVars == <<hFiles, hState>>
vars == <<pathFilter, fPath, fKind, fResult, scrapePc, branchRw, tasks, bucket,
          sem, max_workers, issued, failed, limited,
          rVariant, rRetries, rFrame, last_exception, now, rLog, rError,
          sText, sResult, hFiles, hState>>

(***************************************************************************)
(* Bounds of the model.                                                    *)
(***************************************************************************)
\* the largest argument retries that the retry specification draws
MaxRetries == 3
\* the seconds one call of the operation takes in the retry specification
CallSeconds == 1
\* the most files the blob specification hands to _handle_blob
MaxFiles == 3
\* the longest text the splitter specification draws
MaxTextLen == 4
\* the longest list of filters of one kind that the filter specification draws
MaxFilters == 2
\* the largest limiter size the walker specification draws
MaxWorkers == 2
\* the number of failing responses the remote client gives in one harvest
MaxFaults == 3

(***************************************************************************)
(* Regular expressions.  A pattern is a literal with optional ^ and $      *)
(* anchors; Search is re.Pattern.search: a match anywhere in the path      *)
(* unless the pattern anchors itself.                                      *)
(***************************************************************************)
Pat(start, lit, end) == [start |-> start, lit |-> lit, end |-> end]

MatchAt(p, path, i) ==
    /\ i + Len(p.lit) - 1 <= Len(path)
    /\ \A k \in 1..Len(p.lit) : path[i + k - 1] = p.lit[k]
    /\ p.start => i = 1
    /\ p.end => i + Len(p.lit) - 1 = Len(path)

\* re.Pattern.fullmatch in the place of search: the pattern has to span the path
SearchWholePath(p, path) == MatchAt(p, path, 1) /\ Len(p.lit) = Len(path)

Search(p, path) == \E i \in 1..(Len(path) + 1) : MatchAt(p, path, i)

\* any(pf.search(path) for pf in patterns)
AnySearch(patterns, path) == \E k \in 1..Len(patterns) : Search(patterns[k], path)

(***************************************************************************)
(* PathFilter                                                              *)
(***************************************************************************)
INCLUDE == "include"
EXCLUDE == "exclude"
FILE == "file"
DIRECTORY == "directory"

Filter(regex, filter_type) == [regex |-> regex, filter_type |-> filter_type]

RECURSIVE CompileOf(_, _)
\* [re.compile(f.regex) for f in filters if f.filter_type == filter_type]
CompileOf(filters, filter_type) ==
    IF filters = <<>> THEN <<>>
    ELSE IF Head(filters).filter_type = filter_type
         THEN <<Head(filters).regex>> \o CompileOf(Tail(filters), filter_type)
         ELSE CompileOf(Tail(filters), filter_type)

\* PathFilter.__init__
NewPathFilter(file_filters, path_filters) ==
    [include_file_patterns      |-> CompileOf(file_filters, INCLUDE),
     exclude_file_patterns      |-> CompileOf(file_filters, EXCLUDE),
     include_directory_patterns |-> CompileOf(path_filters, INCLUDE),
     exclude_directory_patterns |-> CompileOf(path_filters, EXCLUDE)]

\* _match_file passing a path unasked only when no filter of either kind is set
MatchFileUnlessAnyFilter(pf, path) ==
    IF /\ pf.include_file_patterns = <<>> /\ pf.exclude_file_patterns = <<>>
       /\ pf.include_directory_patterns = <<>> /\ pf.exclude_directory_patterns = <<>>
    THEN TRUE
    ELSE /\ AnySearch(pf.include_file_patterns, path)
         /\ ~AnySearch(pf.exclude_file_patterns, path)

\* _match_file with the exclude patterns consulted only when no include pattern matches
MatchFileIncludeWins(pf, path) ==
    IF pf.include_file_patterns = <<>> /\ pf.exclude_file_patterns = <<>>
    THEN TRUE
    ELSE \/ AnySearch(pf.include_file_patterns, path)
         \/ (pf.include_file_patterns = <<>> /\ ~AnySearch(pf.exclude_file_patterns, path))

\* PathFilter._match_file
MatchFile(pf, path) ==
    IF pf.include_file_patterns = <<>> /\ pf.exclude_file_patterns = <<>>
    THEN TRUE
    ELSE /\ AnySearch(pf.include_file_patterns, path)
         /\ ~AnySearch(pf.exclude_file_patterns, path)

\* _match_directory without its early return for a kind that has no pattern
MatchDirectoryNoEarlyReturn(pf, path) ==
    /\ AnySearch(pf.include_directory_patterns, path)
    /\ ~AnySearch(pf.exclude_directory_patterns, path)

\* _match_directory asking for every include pattern instead of any
MatchDirectoryAllIncludes(pf, path) ==
    IF pf.include_directory_patterns = <<>> /\ pf.exclude_directory_patterns = <<>>
    THEN TRUE
    ELSE /\ \A k \in 1..Len(pf.include_directory_patterns) :
              Search(pf.include_directory_patterns[k], path)
         /\ pf.include_directory_patterns /= <<>>
         /\ ~AnySearch(pf.exclude_directory_patterns, path)

\* PathFilter._match_directory
MatchDirectory(pf, path) ==
    IF pf.include_directory_patterns = <<>> /\ pf.exclude_directory_patterns = <<>>
    THEN TRUE
    ELSE /\ AnySearch(pf.include_directory_patterns, path)
         /\ ~AnySearch(pf.exclude_directory_patterns, path)

\* PathFilter.match
Match(pf, path, type) ==
    IF type = FILE THEN MatchFile(pf, path) ELSE MatchDirectory(pf, path)

(***************************************************************************)
(* The remote client.  A response is what GithubClient.request gives for   *)
(* one call: an exception of its own (a timeout, a connection error) or an *)
(* HTTP response with a status and, perhaps, an x-rateLimit-reset header,  *)
(* kept here as the seconds between the response and the reset time.       *)
(***************************************************************************)
Response(raises, status_code, has_reset, reset_in) ==
    [raises |-> raises, status_code |-> status_code,
     has_reset |-> has_reset, reset_in |-> reset_in]

RespOk == Response(FALSE, 200, FALSE, 0)
RespTimeout == Response(TRUE, 0, FALSE, 0)
RespServerError == Response(FALSE, 500, FALSE, 0)
RespRateLimit == Response(FALSE, 429, FALSE, 0)
RespForbidden == Response(FALSE, 403, TRUE, 45)
RespLimitLate == Response(FALSE, 429, TRUE, 90)
RespLimitSoon == Response(FALSE, 429, TRUE, 10)

\* RepoWalker.request: what one call of the operation ends with
RequestOutcome(resp) ==
    IF resp.raises THEN "Exception"
    ELSE IF resp.status_code /= 200 THEN "HTTPStatusError"
    ELSE "ok"

(***************************************************************************)
(* retries_wrapper of repo_walker.py.  A frame holds the position in the   *)
(* function (pc), the loop variable attempt, the local delay, and ret:     *)
(* whether `return await fun()` has its value and only the finally clause  *)
(* is left to run.                                                         *)
(*   pc = "call"      awaiting fun()                          (line 252)   *)
(*        "rl_sleep"  awaiting asyncio.sleep(delay)           (line 258)   *)
(*        "sleep"     awaiting asyncio.sleep(delay)           (line 268)   *)
(*        "returned"  the value of fun() was returned                      *)
(*        "raised"    the bare raise of the finally clause    (line 267)   *)
(*        "fell"      the loop ran out: the function returned None         *)
(***************************************************************************)
MinRateLimitDelay == 30
DefaultResetIn == 60

Max(a, b) == IF a >= b THEN a ELSE b

NewFrame == [pc |-> "call", attempt |-> 0, delay |-> 0, ret |-> FALSE]

IdleFrame == [pc |-> "idle", attempt |-> 0, delay |-> 0, ret |-> FALSE]

\* the rate-limit delay that does not read the reset header
RateLimitDelayFloorOnly(resp) == MinRateLimitDelay

\* lines 255-256
RateLimitDelay(resp) ==
    Max(IF resp.has_reset THEN resp.reset_in ELSE DefaultResetIn, MinRateLimitDelay)

\* the bare `raise` of line 267: it raises again the exception that is being
\* handled, and a RuntimeError when none is
BareRaise(active) == IF active = "none" THEN "RuntimeError" ELSE active

\* the exception that is being handled when the finally clause runs: none, for
\* the except clauses have ended by then (lines 253-263) and `return` has none
ActiveInFinally == "none"

\* the finally clause giving up one attempt late
FinallyOffByOne(rw, retries) ==
    IF rw.attempt > retries - 1
    THEN [rw EXCEPT !.pc = "raised"]
    ELSE [rw EXCEPT !.pc = "sleep"]

\* the finally clause, lines 264-268
Finally(rw, retries) ==
    IF rw.attempt > retries - 2
    THEN [rw EXCEPT !.pc = "raised"]
    ELSE [rw EXCEPT !.pc = "sleep"]

\* fun() has finished with resp: lines 252-263, up to the next suspension
OnResponse(rw, resp, retries) ==
    LET o == RequestOutcome(resp) IN
    IF o = "ok" THEN Finally([rw EXCEPT !.ret = TRUE], retries)
    ELSE IF o = "HTTPStatusError"
    THEN IF resp.status_code \in {403, 429}
         THEN [rw EXCEPT !.delay = RateLimitDelay(resp), !.pc = "rl_sleep"]
         ELSE Finally(rw, retries)
    ELSE Finally([rw EXCEPT !.delay = 2 ^ rw.attempt], retries)

\* the loop going on to its next attempt although fun() has returned
OnWakeForgetsResult(rw, retries) ==
    IF rw.pc = "rl_sleep" THEN Finally(rw, retries)
    ELSE IF rw.attempt + 1 < retries
    THEN [rw EXCEPT !.attempt = rw.attempt + 1, !.pc = "call"]
    ELSE [rw EXCEPT !.pc = "fell"]

\* a sleep has ended: up to the next suspension
OnWake(rw, retries) ==
    IF rw.pc = "rl_sleep" THEN Finally(rw, retries)
    ELSE IF rw.ret THEN [rw EXCEPT !.pc = "returned"]
    ELSE IF rw.attempt + 1 < retries
    THEN [rw EXCEPT !.attempt = rw.attempt + 1, !.pc = "call"]
    ELSE [rw EXCEPT !.pc = "fell"]

\* the locals of a frame that has ended are gone
EndFrame(rw) == [IdleFrame EXCEPT !.pc = rw.pc]

Suspended(rw) == rw.pc \in {"call", "rl_sleep", "sleep"}
Sleeping(rw) == rw.pc \in {"rl_sleep", "sleep"}

(***************************************************************************)
(* retries_wrapper of utils/retries_wrapper.py, the one SafeExtractor       *)
(* uses.  Its frame has the same locals and the local last_exception,      *)
(* which the specification keeps in the variable of that name.             *)
(*   pc = "call"      awaiting fun()                          (line 26)    *)
(*        "sleep"     awaiting asyncio.sleep(delay)           (line 42)    *)
(*        "returned"  the value of fun() was returned         (line 26)    *)
(*        "raised"    the loop ran out                        (lines 47-50)*)
(***************************************************************************)
BackoffShift == 5
MaxBackoff == 120

Min(a, b) == IF a <= b THEN a ELSE b

\* line 32: the exception carries the response it was made from
HasResponseHeaders(resp) == ~resp.raises

\* lines 32-39
UtilsDelay(rw, resp) ==
    IF HasResponseHeaders(resp) THEN RateLimitDelay(resp)
    ELSE Min(2 ^ (BackoffShift + rw.attempt), MaxBackoff)

\* retries_wrapper sleeping after every failed attempt, the last one too
UtilsOnResponseSleepsAlways(rw, resp, retries) ==
    IF RequestOutcome(resp) = "ok" THEN [rw EXCEPT !.ret = TRUE, !.pc = "returned"]
    ELSE [rw EXCEPT !.delay = UtilsDelay(rw, resp), !.pc = "sleep"]

\* fun() has finished with resp: lines 26-42 and, on the last attempt, 45-50
UtilsOnResponse(rw, resp, retries) ==
    IF RequestOutcome(resp) = "ok" THEN [rw EXCEPT !.ret = TRUE, !.pc = "returned"]
    ELSE IF rw.attempt < retries - 1
    THEN [rw EXCEPT !.delay = UtilsDelay(rw, resp), !.pc = "sleep"]
    ELSE [rw EXCEPT !.delay = UtilsDelay(rw, resp), !.pc = "raised"]

\* the sleep of line 42 has ended: the next attempt of the loop of line 23, or
\* lines 45-50 when the range is used up
UtilsOnWake(rw, retries) ==
    IF rw.attempt + 1 < retries
    THEN [rw EXCEPT !.attempt = rw.attempt + 1, !.pc = "call"]
    ELSE [rw EXCEPT !.attempt = rw.attempt + 1, !.pc = "raised"]

(***************************************************************************)
(* SafeExtractor.aextract (services/pipeline/extractors/solution_extractor)*)
(* runs the aextract of the extractor it wraps under the retries_wrapper   *)
(* of utils and turns what that run raises into the empty list.            *)
(***************************************************************************)
ExtractRetries == 3

\* line 38: the classes that `except Exception` catches
CaughtByExceptException(err) == err \in {"Exception", "HTTPStatusError", "RuntimeError"}

Pending == [done |-> FALSE, raises |-> "none", value |-> "none"]
Returns(value) == [done |-> TRUE, raises |-> "none", value |-> value]
Raises(err) == [done |-> TRUE, raises |-> err, value |-> "none"]

\* aextract letting the exception of retries_wrapper through
AextractReraises(rw, err) ==
    IF rw.pc = "returned" THEN Returns("result")
    ELSE IF rw.pc = "raised" THEN Raises(err)
    ELSE Pending

\* lines 31-41: what aextract has done when its retries_wrapper is at frame rw,
\* err being what that run has raised; "result" is the list of the wrapped
\* extractor, "empty" the list []
Aextract(rw, err) ==
    IF rw.pc = "returned" THEN Returns("result")
    ELSE IF rw.pc = "raised"
    THEN IF CaughtByExceptException(err) THEN Returns("empty") ELSE Raises(err)
    ELSE Pending

(***************************************************************************)
(* The remote repository: a stable tree of entries, and its blobs.         *)
(*   /            a.txt  b.png  docs/  lib/  ext (a submodule entry)       *)
(*   /docs        c.txt (an empty file)                                    *)
(*   /lib         sub/                                                     *)
(*   /lib/sub     e.txt                                                    *)
(***************************************************************************)
Entry(path, type, sha) == [path |-> path, type |-> type, sha |-> sha]

RootSha == "T0"

TreeShas == {"T0", "Tdocs", "Tlib", "Tsub"}
BlobShas == {"Ba", "Bb", "Bc", "Be"}

\* GitTreeResponseModel.tree of each tree sha
TreeOf(sha) ==
    CASE sha = "T0" ->
           << Entry(<<"a", ".", "t", "x", "t">>, "blob", "Ba"),
              Entry(<<"b", ".", "p", "n", "g">>, "blob", "Bb"),
              Entry(<<"d", "o", "c", "s">>, "tree", "Tdocs"),
              Entry(<<"l", "i", "b">>, "tree", "Tlib"),
              Entry(<<"e", "x", "t">>, "commit", "Cext") >>
      [] sha = "Tdocs" ->
           << Entry(<<"c", ".", "t", "x", "t">>, "blob", "Bc") >>
      [] sha = "Tlib" ->
           << Entry(<<"s", "u", "b">>, "tree", "Tsub") >>
      [] sha = "Tsub" ->
           << Entry(<<"e", ".", "t", "x", "t">>, "blob", "Be") >>
      [] OTHER -> << >>

\* GitBlobResponseModel of each blob sha: the encoding marker, the content
\* (None when has_content is FALSE), as the bytes it encodes and whether the
\* base64 text is correctly padded
Blob(encoding, has_content, data, padded) ==
    [encoding |-> encoding, has_content |-> has_content, data |-> data, padded |-> padded]

BlobOf(sha) ==
    CASE sha = "Ba" -> Blob("base64", TRUE, <<104, 105>>, TRUE)
      [] sha = "Bb" -> Blob("base64", TRUE, <<137, 80>>, TRUE)
      [] sha = "Bc" -> Blob("base64", TRUE, <<>>, TRUE)
      [] sha = "Be" -> Blob("base64", TRUE, <<101>>, TRUE)
      [] OTHER -> Blob("none", FALSE, <<>>, FALSE)

ReplacementChar == 65533

\* bytes.decode("utf-8", errors="replace"): a byte that is no ASCII character
\* and starts no valid sequence becomes U+FFFD
Utf8Replace(data) ==
    [i \in 1..Len(data) |-> IF data[i] < 128 THEN data[i] ELSE ReplacementChar]

NoText == [some |-> FALSE, text |-> <<>>]

\* _decode_blob not looking at the encoding marker
DecodeBlobAnyEncoding(blob) ==
    IF ~blob.has_content THEN NoText
    ELSE IF ~blob.padded THEN NoText
    ELSE [some |-> TRUE, text |-> Utf8Replace(blob.data)]

\* RepoWalker._decode_blob after the blob has been fetched, lines 198-204
DecodeBlob(blob) ==
    IF blob.encoding /= "base64" \/ ~blob.has_content THEN NoText
    ELSE IF ~blob.padded THEN NoText
    ELSE [some |-> TRUE, text |-> Utf8Replace(blob.data)]

RepoFile(path, content) == [path |-> path, content |-> content]

(***************************************************************************)
(* RepoWalker.  A task is one _walk or _handle_blob coroutine, named by    *)
(* the sha of the entry it was created for; the _walk of the root runs     *)
(* inside scrape itself.                                                   *)
(*   st = "none"      not created                                          *)
(*        "wait_sem"  created, at `async with sem`                         *)
(*        "retry"     holds a permit, inside retries_wrapper (frame rw)    *)
(*        "gather"    _walk at `await asyncio.gather` of its tasks          *)
(*        "returned", "raised", "cancelled"                                *)
(***************************************************************************)
Retries == 3

\* the entries that are neither a file nor a directory: the submodule ext
OtherShas == {"Cext"}

\* a coroutine is named by the sha of its entry; the code creates none for an
\* entry of another type, whose name is there so that one would be seen
TaskIds == TreeShas \cup BlobShas \cup OtherShas

NoTask ==
    [st |-> "none", kind |-> "none", path |-> <<>>, parent |-> "none", rw |-> IdleFrame]

NewTask(kind, path, parent) ==
    [st |-> "wait_sem", kind |-> kind, path |-> path, parent |-> parent, rw |-> IdleFrame]

Finished(t) == t.st \in {"returned", "raised", "cancelled"}
Live(t) == t.st \in {"wait_sem", "retry", "gather"}

ChildrenOf(ts, id) == {c \in TaskIds : ts[c].st /= "none" /\ ts[c].parent = id}

\* the prefix of a _walk without the "/" after the path of its directory
PrefixOfNoSlash(path) == path

\* line 115: the prefix of a _walk is the path of its directory and "/"
PrefixOf(path) == IF path = <<>> THEN <<>> ELSE path \o <<"/">>
FullPath(prefix, name) == IF prefix /= <<>> THEN prefix \o name ELSE name

\* _walk descending into every directory, whatever the directory filter says
ScheduledEveryDirectory(pf, prefix, obj) ==
    LET full_path == FullPath(prefix, obj.path) IN
    IF obj.type = "blob" THEN Match(pf, full_path, FILE)
    ELSE obj.type = "tree"

\* _walk creating a task for every blob, whatever the file filter says
ScheduledEveryFile(pf, prefix, obj) ==
    LET full_path == FullPath(prefix, obj.path) IN
    IF obj.type = "blob" THEN TRUE
    ELSE IF obj.type = "tree" THEN Match(pf, full_path, DIRECTORY)
    ELSE FALSE

\* _walk taking every entry that is no blob for a directory
ScheduledEveryEntry(pf, prefix, obj) ==
    LET full_path == FullPath(prefix, obj.path) IN
    IF obj.type = "blob" THEN Match(pf, full_path, FILE)
    ELSE Match(pf, full_path, DIRECTORY)

\* lines 113-142: whether _walk creates a task for the entry obj of its tree
Scheduled(pf, prefix, obj) ==
    LET full_path == FullPath(prefix, obj.path) IN
    IF obj.type = "blob" THEN Match(pf, full_path, FILE)
    ELSE IF obj.type = "tree" THEN Match(pf, full_path, DIRECTORY)
    ELSE FALSE

SpawnChildren(ts, pf, id) ==
    LET tree == TreeOf(id)
        prefix == PrefixOf(ts[id].path)
        new == {k \in 1..Len(tree) : Scheduled(pf, prefix, tree[k])}
        taskOf(c) == LET k == CHOOSE k \in new : tree[k].sha = c
                     IN NewTask(IF tree[k].type = "blob" THEN "blob" ELSE "walk",
                                FullPath(prefix, tree[k].path), id)
    IN [c \in TaskIds |->
          IF \E k \in new : tree[k].sha = c THEN taskOf(c)
          ELSE IF c = id
               THEN [ts[id] EXCEPT !.st = IF new = {} THEN "returned" ELSE "gather"]
               ELSE ts[c]]

\* _handle_blob appending the file it has decoded a second time
BucketAppendTwice(b, path, text) ==
    IF text.some /\ text.text /= <<>>
    THEN Append(Append(b, RepoFile(path, text.text)), RepoFile(path, text.text))
    ELSE b

\* lines 171-173 of _handle_blob
BucketAppend(b, path, text) ==
    IF text.some /\ text.text /= <<>> THEN Append(b, RepoFile(path, text.text)) ELSE b

(***************************************************************************)
(* IdentitySplitter (services/pipeline/splitters/identity_splitter).  A    *)
(* Python value is kept with its type: a str, or a TextNode with its text. *)
(***************************************************************************)
PyStr(text) == [type |-> "str", text |-> text]
PyTextNode(text) == [type |-> "TextNode", text |-> text]

NoResult == [called |-> FALSE, value |-> <<>>]

\* IdentitySplitter.split_text: `return [text]`
SplitText(text) == <<PyStr(text)>>

(***************************************************************************)
(* The inputs the specifications draw.                                     *)
(***************************************************************************)
PatTxt == Pat(FALSE, <<".", "t", "x", "t">>, TRUE)      \* \.txt$
PatDocs == Pat(TRUE, <<"d", "o", "c", "s">>, FALSE)     \* ^docs
PatLib == Pat(FALSE, <<"l", "i", "b">>, FALSE)          \* lib

PatternPool == {PatTxt, PatDocs, PatLib}
FilterPool == {Filter(p, t) : p \in PatternPool, t \in {INCLUDE, EXCLUDE}}

SeqsUpTo(S, n) == UNION {[1..k -> S] : k \in 0..n}

FilterLists == SeqsUpTo(FilterPool, MaxFilters)

FilterPaths ==
    { <<"a", ".", "t", "x", "t">>,
      <<"b", ".", "p", "n", "g">>,
      <<"d", "o", "c", "s">>,
      <<"l", "i", "b", "/", "s", "u", "b">>,
      <<"d", "o", "c", "s", "/", "l", "i", "b", ".", "t", "x", "t">> }

\* the filter configurations of the harvests: none; the files \.txt$ with the
\* directories excluding ^docs; and that with the directories also including lib
WalkFilters ==
    { NewPathFilter(<<>>, <<>>),
      NewPathFilter(<<Filter(PatTxt, INCLUDE)>>, <<Filter(PatDocs, EXCLUDE)>>),
      NewPathFilter(<<Filter(PatTxt, INCLUDE)>>,
                    <<Filter(PatLib, INCLUDE), Filter(PatDocs, EXCLUDE)>>) }

\* what the remote client answers to a call of a harvest
WalkResponses == {RespOk, RespTimeout, RespServerError, RespRateLimit}

Targets == {"getBranch"} \cup TaskIds

\* the calls the remote client may fail: the branch, the tree of lib, the blob
\* of a.txt
FlakyTargets == {"getBranch", "Tlib", "Ba"}

(***************************************************************************)
(* PathFilter.match, called on a filter built from any lists of filters.   *)
(***************************************************************************)
WalkIdle ==
    /\ scrapePc = "idle"
    /\ branchRw = IdleFrame
    /\ tasks = [id \in TaskIds |-> NoTask]
    /\ bucket = <<>>
    /\ sem = 0
    /\ max_workers = 0
    /\ issued = [t \in Targets |-> 0]
    /\ failed = [t \in Targets |-> 0]
    /\ limited = [t \in Targets |-> 0]

RetryIdle ==
    /\ rVariant = "none"
    /\ rRetries = 0
    /\ rFrame = IdleFrame
    /\ last_exception = "none"
    /\ now = 0
    /\ rLog = <<>>
    /\ rError = "none"

SplitIdle ==
    /\ sText = <<>>
    /\ sResult = NoResult

BlobIdle ==
    /\ hFiles = <<>>
    /\ hState = <<>>

FilterInit ==
    /\ pathFilter \in {NewPathFilter(ff, df) : ff \in FilterLists, df \in FilterLists}
    /\ fPath = <<>>
    /\ fKind = "none"
    /\ fResult = "none"
    /\ WalkIdle
    /\ RetryIdle
    /\ SplitIdle
    /\ BlobIdle

MatchCall(path, type) ==
    /\ fPath' = path
    /\ fKind' = type
    /\ fResult' = IF Match(pathFilter, path, type) THEN "True" ELSE "False"
    /\ UNCHANGED <<pathFilter, walkVars, retryVars, splitVars, blobVars>>

FilterNext == \E path \in FilterPaths, type \in {FILE, DIRECTORY} : MatchCall(path, type)

FilterSpec == FilterInit /\ [][FilterNext]_vars

(***************************************************************************)
(* RepoWalker.scrape, run by asyncio.run (GithubReader.load_data).         *)
(***************************************************************************)
Init ==
    /\ pathFilter \in WalkFilters
    /\ fPath = <<>>
    /\ fKind = "none"
    /\ fResult = "none"
    /\ max_workers \in 1..MaxWorkers
    /\ scrapePc = "getBranch"
    /\ branchRw = NewFrame
    /\ tasks = [id \in TaskIds |-> NoTask]
    /\ bucket = <<>>
    /\ sem = 0
    /\ issued = [t \in Targets |-> IF t = "getBranch" THEN 1 ELSE 0]
    /\ failed = [t \in Targets |-> 0]
    /\ limited = [t \in Targets |-> 0]
    /\ RetryIdle
    /\ SplitIdle
    /\ BlobIdle

RECURSIVE SumOver(_, _)
SumOver(f, S) ==
    IF S = {} THEN 0
    ELSE LET x == CHOOSE x \in S : TRUE IN f[x] + SumOver(f, S \ {x})

\* the failing responses given so far
Faults == SumOver(failed, Targets) + SumOver(limited, Targets)

IsFault(resp) == RequestOutcome(resp) /= "ok"
IsRateLimit(resp) == ~resp.raises /\ resp.status_code \in {403, 429}
CanAnswer(target, resp) == IsFault(resp) => (target \in FlakyTargets /\ Faults < MaxFaults)

\* the record of the answer resp to a call of target
Answered(target, resp) ==
    /\ failed' = IF IsFault(resp) /\ ~IsRateLimit(resp)
                 THEN [failed EXCEPT ![target] = @ + 1] ELSE failed
    /\ limited' = IF IsRateLimit(resp)
                  THEN [limited EXCEPT ![target] = @ + 1] ELSE limited

\* scrape ends when the _walk of the root ends, lines 70-72
ScrapeAfter(ts) ==
    IF scrapePc /= "walk" THEN scrapePc
    ELSE IF ts[RootSha].st = "returned" THEN "returned"
    ELSE IF ts[RootSha].st = "raised" THEN "raised"
    ELSE scrapePc

\* getBranch answers, lines 51-63
BranchResponse(resp) ==
    /\ scrapePc = "getBranch"
    /\ branchRw.pc = "call"
    /\ CanAnswer("getBranch", resp)
    /\ LET rw == OnResponse(branchRw, resp, Retries) IN
       /\ branchRw' = IF Suspended(rw) THEN rw ELSE EndFrame(rw)
       /\ scrapePc' = IF rw.pc = "raised" THEN "raised" ELSE scrapePc
    /\ Answered("getBranch", resp)
    /\ UNCHANGED <<pathFilter, filterVars, retryVars, splitVars, blobVars, tasks, bucket, sem, max_workers, issued>>

\* a sleep of the retries_wrapper of getBranch ends; when the branch is returned,
\* lines 65-70 run up to the getTree call of the _walk of the root
BranchWake ==
    /\ scrapePc = "getBranch"
    /\ Sleeping(branchRw)
    /\ branchRw' = LET rw == OnWake(branchRw, Retries)
                   IN IF Suspended(rw) THEN rw ELSE EndFrame(rw)
    /\ IF branchRw'.pc = "returned"
       THEN /\ scrapePc' = "walk"
            /\ bucket' = <<>>
            /\ sem' = max_workers - 1
            /\ tasks' = [tasks EXCEPT ![RootSha] =
                           [st |-> "retry", kind |-> "walk", path |-> <<>>,
                            parent |-> "none", rw |-> NewFrame]]
            /\ issued' = [issued EXCEPT ![RootSha] = @ + 1]
       ELSE /\ scrapePc' = IF branchRw'.pc \in {"raised", "fell"} THEN "raised" ELSE scrapePc
            /\ issued' = IF branchRw'.pc = "call"
                         THEN [issued EXCEPT !["getBranch"] = @ + 1] ELSE issued
            /\ UNCHANGED <<bucket, sem, tasks>>
    /\ UNCHANGED <<pathFilter, filterVars, retryVars, splitVars, blobVars, max_workers, failed, limited>>

\* a task entering without waiting for a permit
TaskAcquireNoWait(id) ==
    /\ tasks[id].st = "wait_sem"
    /\ sem' = sem - 1
    /\ tasks' = [tasks EXCEPT ![id].st = "retry", ![id].rw = NewFrame]
    /\ issued' = [issued EXCEPT ![id] = @ + 1]
    /\ UNCHANGED <<pathFilter, filterVars, retryVars, splitVars, blobVars, scrapePc, branchRw, bucket, max_workers,
                   failed, limited>>

\* `async with sem` lets the task in, and it makes its first call
TaskAcquire(id) ==
    /\ tasks[id].st = "wait_sem"
    /\ sem > 0
    /\ sem' = sem - 1
    /\ tasks' = [tasks EXCEPT ![id].st = "retry", ![id].rw = NewFrame]
    /\ issued' = [issued EXCEPT ![id] = @ + 1]
    /\ UNCHANGED <<pathFilter, filterVars, retryVars, splitVars, blobVars, scrapePc, branchRw, bucket, max_workers, failed, limited>>

\* the coroutine after its retries_wrapper has ended with frame rw: the rest of
\* _walk (lines 110-145) or of _handle_blob and _decode_blob (lines 171-173, 198-204)
AfterRetry(id, rw) ==
    LET ts == [tasks EXCEPT ![id].rw = EndFrame(rw)] IN
    IF rw.pc = "raised"
    THEN /\ tasks' = [ts EXCEPT ![id].st = "raised"]
         /\ bucket' = bucket
    ELSE IF ts[id].kind = "walk"
    THEN /\ tasks' = IF rw.pc = "fell" THEN [ts EXCEPT ![id].st = "returned"]
                     ELSE SpawnChildren(ts, pathFilter, id)
         /\ bucket' = bucket
    ELSE /\ tasks' = [ts EXCEPT ![id].st = "returned"]
         /\ bucket' = IF rw.pc = "fell" THEN bucket
                      ELSE BucketAppend(bucket, ts[id].path, DecodeBlob(BlobOf(id)))

\* getTree or getBlob answers
TaskResponse(id, resp) ==
    /\ tasks[id].st = "retry"
    /\ tasks[id].rw.pc = "call"
    /\ CanAnswer(id, resp)
    /\ Answered(id, resp)
    /\ LET rw == OnResponse(tasks[id].rw, resp, Retries) IN
       IF Suspended(rw)
       THEN /\ tasks' = [tasks EXCEPT ![id].rw = rw]
            /\ UNCHANGED <<bucket, sem>>
       ELSE /\ AfterRetry(id, rw)
            /\ sem' = sem + 1
    /\ scrapePc' = ScrapeAfter(tasks')
    /\ UNCHANGED <<pathFilter, filterVars, retryVars, splitVars, blobVars, branchRw, max_workers, issued>>

\* a _walk keeping its permit while it awaits the tasks of its tree, as if
\* `async with sem` enclosed the gather
TaskWakeKeepsPermit(id) ==
    /\ tasks[id].st = "retry"
    /\ Sleeping(tasks[id].rw)
    /\ LET rw == OnWake(tasks[id].rw, Retries) IN
       IF Suspended(rw)
       THEN /\ tasks' = [tasks EXCEPT ![id].rw = rw]
            /\ issued' = IF rw.pc = "call" THEN [issued EXCEPT ![id] = @ + 1] ELSE issued
            /\ UNCHANGED <<bucket, sem>>
       ELSE /\ AfterRetry(id, rw)
            /\ sem' = IF tasks'[id].st = "gather" THEN sem ELSE sem + 1
            /\ issued' = issued
    /\ scrapePc' = ScrapeAfter(tasks')
    /\ UNCHANGED <<pathFilter, filterVars, retryVars, splitVars, blobVars, branchRw, max_workers, failed, limited>>

\* a sleep of the retries_wrapper of a task ends
TaskWake(id) ==
    /\ tasks[id].st = "retry"
    /\ Sleeping(tasks[id].rw)
    /\ LET rw == OnWake(tasks[id].rw, Retries) IN
       IF Suspended(rw)
       THEN /\ tasks' = [tasks EXCEPT ![id].rw = rw]
            /\ issued' = IF rw.pc = "call" THEN [issued EXCEPT ![id] = @ + 1] ELSE issued
            /\ UNCHANGED <<bucket, sem>>
       ELSE /\ AfterRetry(id, rw)
            /\ sem' = sem + 1
            /\ issued' = issued
    /\ scrapePc' = ScrapeAfter(tasks')
    /\ UNCHANGED <<pathFilter, filterVars, retryVars, splitVars, blobVars, branchRw, max_workers, failed, limited>>

\* _walk going on as soon as one task of the list has returned
GatherReturnFirst(id) ==
    /\ tasks[id].st = "gather"
    /\ \E c \in ChildrenOf(tasks, id) : tasks[c].st = "returned"
    /\ tasks' = [tasks EXCEPT ![id].st = "returned"]
    /\ scrapePc' = ScrapeAfter(tasks')
    /\ UNCHANGED <<pathFilter, filterVars, retryVars, splitVars, blobVars, branchRw, bucket, sem,
                   max_workers, issued, failed, limited>>

\* asyncio.gather: every task of the list has returned, line 145
GatherReturn(id) ==
    /\ tasks[id].st = "gather"
    /\ \A c \in ChildrenOf(tasks, id) : tasks[c].st = "returned"
    /\ tasks' = [tasks EXCEPT ![id].st = "returned"]
    /\ scrapePc' = ScrapeAfter(tasks')
    /\ UNCHANGED <<pathFilter, filterVars, retryVars, splitVars, blobVars, branchRw, bucket, sem, max_workers, issued, failed, limited>>

\* asyncio.gather without return_exceptions: the first exception of a task of the
\* list is raised to the awaiting _walk; the other tasks run on
GatherRaise(id) ==
    /\ tasks[id].st = "gather"
    /\ \E c \in ChildrenOf(tasks, id) : tasks[c].st = "raised"
    /\ tasks' = [tasks EXCEPT ![id].st = "raised"]
    /\ scrapePc' = ScrapeAfter(tasks')
    /\ UNCHANGED <<pathFilter, filterVars, retryVars, splitVars, blobVars, branchRw, bucket, sem, max_workers, issued, failed, limited>>

\* asyncio.run cancels the tasks that are left when scrape has raised; a task
\* cancelled inside `async with sem` gives its permit back
CancelAll ==
    /\ scrapePc = "raised"
    /\ \E id \in TaskIds : Live(tasks[id])
    /\ tasks' = [id \in TaskIds |->
                   IF Live(tasks[id])
                   THEN [tasks[id] EXCEPT !.st = "cancelled",
                                          !.rw = [IdleFrame EXCEPT !.pc = "cancelled"]]
                   ELSE tasks[id]]
    /\ sem' = sem + Cardinality({id \in TaskIds : tasks[id].st = "retry"})
    /\ UNCHANGED <<pathFilter, filterVars, retryVars, splitVars, blobVars, scrapePc, branchRw, bucket, max_workers, issued, failed, limited>>

Next ==
    \/ \E resp \in WalkResponses : BranchResponse(resp)
    \/ BranchWake
    \/ \E id \in TaskIds : TaskAcquire(id)
    \/ \E id \in TaskIds, resp \in WalkResponses : TaskResponse(id, resp)
    \/ \E id \in TaskIds : TaskWake(id)
    \/ \E id \in TaskIds : GatherReturn(id)
    \/ \E id \in TaskIds : GatherRaise(id)
    \/ CancelAll

Spec == Init /\ [][Next]_vars

\* The event loop of asyncio.run runs every callback that is ready: a remote
\* call that has been made is answered, a sleep ends, a task that can enter the
\* limiter enters, a gather whose tasks are done goes on.  The walk does not
\* stop while one of these steps is possible.
FairSpec == Spec /\ WF_vars(Next)

(***************************************************************************)
(* One retries_wrapper run alone, of either module, against an operation   *)
(* that answers each call with any response; the clock advances by the     *)
(* time of each call and by each sleep.                                    *)
(***************************************************************************)
\* what the operation answers to a call
RetryResponses ==
    {RespOk, RespTimeout, RespServerError, RespRateLimit, RespForbidden,
     RespLimitLate, RespLimitSoon}

LogEvent(e, t, resp, d) == [e |-> e, t |-> t, resp |-> resp, d |-> d]

RetryInit ==
    /\ pathFilter = NewPathFilter(<<>>, <<>>)
    /\ fPath = <<>>
    /\ fKind = "none"
    /\ fResult = "none"
    /\ WalkIdle
    /\ rVariant \in {"walker", "utils"}
    /\ rRetries \in 1..MaxRetries
    /\ rFrame = NewFrame
    /\ last_exception = "none"
    /\ now = 0
    /\ rLog = <<LogEvent("call", 0, RespOk, 0)>>
    /\ rError = "none"
    /\ SplitIdle
    /\ BlobIdle

\* the log after a sleep that began at now, and the call that follows it if any
LogWake(rw) ==
    LET l == Append(rLog, LogEvent(rFrame.pc, now, RespOk, rFrame.delay))
    IN IF rw.pc = "call" THEN Append(l, LogEvent("call", now + rFrame.delay, RespOk, 0))
       ELSE l

\* repo_walker.py: fun() answers
WrapperResponse(resp) ==
    /\ rVariant = "walker"
    /\ rFrame.pc = "call"
    /\ now' = now + CallSeconds
    /\ rFrame' = OnResponse(rFrame, resp, rRetries)
    /\ rError' = IF rFrame'.pc = "raised" THEN BareRaise(ActiveInFinally) ELSE rError
    /\ rLog' = Append(rLog, LogEvent("resp", now', resp, 0))
    /\ UNCHANGED <<pathFilter, filterVars, walkVars, splitVars, blobVars, rVariant, rRetries, last_exception>>

\* repo_walker.py: a sleep ends
WrapperWake ==
    /\ rVariant = "walker"
    /\ Sleeping(rFrame)
    /\ now' = now + rFrame.delay
    /\ rFrame' = OnWake(rFrame, rRetries)
    /\ rError' = IF rFrame'.pc = "raised" THEN BareRaise(ActiveInFinally) ELSE rError
    /\ rLog' = LogWake(rFrame')
    /\ UNCHANGED <<pathFilter, filterVars, walkVars, splitVars, blobVars, rVariant, rRetries, last_exception>>

\* utils/retries_wrapper.py: fun() answers
UtilsResponse(resp) ==
    /\ rVariant = "utils"
    /\ rFrame.pc = "call"
    /\ now' = now + CallSeconds
    /\ rFrame' = UtilsOnResponse(rFrame, resp, rRetries)
    /\ last_exception' = IF RequestOutcome(resp) = "ok" THEN last_exception
                          ELSE RequestOutcome(resp)
    /\ rError' = IF rFrame'.pc = "raised" THEN last_exception' ELSE rError
    /\ rLog' = Append(rLog, LogEvent("resp", now', resp, 0))
    /\ UNCHANGED <<pathFilter, filterVars, walkVars, splitVars, blobVars, rVariant, rRetries>>

\* utils/retries_wrapper.py: the sleep ends
UtilsWake ==
    /\ rVariant = "utils"
    /\ Sleeping(rFrame)
    /\ now' = now + rFrame.delay
    /\ rFrame' = UtilsOnWake(rFrame, rRetries)
    /\ rError' = IF rFrame'.pc = "raised" THEN last_exception ELSE rError
    /\ rLog' = LogWake(rFrame')
    /\ UNCHANGED <<pathFilter, filterVars, walkVars, splitVars, blobVars, rVariant, rRetries, last_exception>>

RetryNext ==
    \/ \E resp \in RetryResponses : WrapperResponse(resp)
    \/ WrapperWake
    \/ \E resp \in RetryResponses : UtilsResponse(resp)
    \/ UtilsWake

RetrySpec == RetryInit /\ [][RetryNext]_vars

(***************************************************************************)
(* _handle_blob runs alone: the tasks of some files, each with the blob    *)
(* that getBlob has answered, decode it and append to the shared bucket,   *)
(* in any order.                                                           *)
(***************************************************************************)
BlobEncodings == {"base64", "utf-8"}
BlobDatas == {<<>>, <<104, 105>>, <<137, 80>>}
\* the blobs getBlob may answer: no content, or content of any data, padded or not
BlobPool ==
    {Blob(e, FALSE, <<>>, TRUE) : e \in BlobEncodings}
    \cup {Blob(e, TRUE, d, p) : e \in BlobEncodings, d \in BlobDatas, p \in BOOLEAN}

FilePaths == << <<"f", "1">>, <<"f", "2">>, <<"f", "3">>, <<"f", "4">> >>

BlobInit ==
    /\ pathFilter = NewPathFilter(<<>>, <<>>)
    /\ fPath = <<>>
    /\ fKind = "none"
    /\ fResult = "none"
    /\ WalkIdle
    /\ RetryIdle
    /\ SplitIdle
    /\ \E n \in 1..MaxFiles :
         /\ hFiles \in {[i \in 1..n |-> [path |-> FilePaths[i], blob |-> bs[i]]] :
                           bs \in [1..n -> BlobPool]}
         /\ hState = [i \in 1..n |-> "fetched"]

\* the rest of _decode_blob and of _handle_blob for file i, lines 198-204, 171-173
HandleBlob(i) ==
    /\ hState[i] = "fetched"
    /\ bucket' = BucketAppend(bucket, hFiles[i].path, DecodeBlob(hFiles[i].blob))
    /\ hState' = [hState EXCEPT ![i] = "returned"]
    /\ UNCHANGED <<pathFilter, filterVars, retryVars, splitVars, hFiles, scrapePc, branchRw,
                   tasks, sem, max_workers, issued, failed, limited>>

BlobNext == \E i \in 1..Len(hFiles) : HandleBlob(i)

BlobSpec == BlobInit /\ [][BlobNext]_vars

(***************************************************************************)
(* IdentitySplitter.split_text, called once on any text.                   *)
(***************************************************************************)
TextChars == {"a", " ", "\n"}
Texts == SeqsUpTo(TextChars, MaxTextLen)

SplitInit ==
    /\ pathFilter = NewPathFilter(<<>>, <<>>)
    /\ fPath = <<>>
    /\ fKind = "none"
    /\ fResult = "none"
    /\ WalkIdle
    /\ RetryIdle
    /\ BlobIdle
    /\ sText \in Texts
    /\ sResult = NoResult

SplitTextCall ==
    /\ ~sResult.called
    /\ sResult' = [called |-> TRUE, value |-> SplitText(sText)]
    /\ UNCHANGED <<pathFilter, filterVars, walkVars, retryVars, blobVars, sText>>

SplitNext == SplitTextCall

SplitSpec == SplitInit /\ [][SplitNext]_vars

(***************************************************************************)
(* The vocabulary of the properties: the remote tree as the caller sees it *)
(***************************************************************************)
ParentOf(sha) ==
    CHOOSE t \in TreeShas : \E k \in 1..Len(TreeOf(t)) : TreeOf(t)[k].sha = sha

NameOf(sha) ==
    LET t == ParentOf(sha)
        k == CHOOSE k \in 1..Len(TreeOf(t)) : TreeOf(t)[k].sha = sha
    IN TreeOf(t)[k].path

RECURSIVE RouteJoin(_)
RouteJoin(sha) ==
    IF sha = RootSha THEN <<>>
    ELSE IF ParentOf(sha) = RootSha THEN NameOf(sha)
    ELSE RouteJoin(ParentOf(sha)) \o <<"/">> \o NameOf(sha)

RECURSIVE RouteDirs(_)
RouteDirs(sha) ==
    IF sha = RootSha \/ ParentOf(sha) = RootSha THEN {}
    ELSE {ParentOf(sha)} \cup RouteDirs(ParentOf(sha))

RemotePaths == [sha \in TaskIds |-> RouteJoin(sha)]
RemoteDirs == [sha \in TaskIds |-> RouteDirs(sha)]

\* the entry names on the route from the root to the entry, joined by "/"
RemotePath(sha) == RemotePaths[sha]

\* the directories, the root left out, that an entry lies beneath
DirsAbove(sha) == RemoteDirs[sha]

AtOrBeneath(sha, dir) == sha = dir \/ dir \in DirsAbove(sha)

InBucket(path) == \E i \in 1..Len(bucket) : bucket[i].path = path
CountInBucket(path) == Cardinality({i \in 1..Len(bucket) : bucket[i].path = path})

\* every attempt of the calls of a target has failed
AllFailed(target) == failed[target] + limited[target] = Retries
NoFailure(target) == failed[target] + limited[target] = 0
OnlyFails(target) == \A t \in Targets \ {target} : NoFailure(t)

\* a file the filters accept, every directory above it accepted, with content
\* that decodes to a text
Accepted(b) ==
    /\ b \in BlobShas
    /\ MatchFile(pathFilter, RemotePath(b))
    /\ \A d \in DirsAbove(b) : MatchDirectory(pathFilter, RemotePath(d))
    /\ DecodeBlob(BlobOf(b)).some
    /\ DecodeBlob(BlobOf(b)).text /= <<>>

ScrapeOver == scrapePc \in {"returned", "raised"}

\* Accepted, for the filter pf
AcceptedBy(pf, b) ==
    /\ MatchFile(pf, RemotePath(b))
    /\ \A d \in DirsAbove(b) : MatchDirectory(pf, RemotePath(d))
    /\ DecodeBlob(BlobOf(b)).some
    /\ DecodeBlob(BlobOf(b)).text /= <<>>
\* the paths a harvest with the filter pf is to give
HarvestOf == [pf \in WalkFilters |-> {RemotePath(b) : b \in {x \in BlobShas : AcceptedBy(pf, x)}}]
BucketPaths == {bucket[i].path : i \in 1..Len(bucket)}
\* the entry is the root tree, or passes the filter pf of its kind with every
\* directory above it passing the directory filter
ReachedBy(pf, id) ==
    \/ id = RootSha
    \/ /\ id \in TreeShas \cup BlobShas
       /\ Match(pf, RemotePath(id), IF id \in BlobShas THEN FILE ELSE DIRECTORY)
       /\ \A d \in DirsAbove(id) : MatchDirectory(pf, RemotePath(d))
\* the calls a harvest with the filter pf is to issue when none fails
CallsOf ==
    [pf \in WalkFilters |->
        [t \in Targets |-> IF t = "getBranch" \/ ReachedBy(pf, t) THEN 1 ELSE 0]]
\* the filters of the end-to-end scenario: files \.txt$, directories not ^docs
ScenarioFilter ==
    NewPathFilter(<<Filter(PatTxt, INCLUDE)>>, <<Filter(PatDocs, EXCLUDE)>>)
ZeroCalls == [t \in Targets |-> 0]
\* no call of the harvest has failed so far
AllSucceed == failed = ZeroCalls /\ limited = ZeroCalls

IncludeOf(type) ==
    IF type = FILE THEN pathFilter.include_file_patterns
    ELSE pathFilter.include_directory_patterns
ExcludeOf(type) ==
    IF type = FILE THEN pathFilter.exclude_file_patterns
    ELSE pathFilter.exclude_directory_patterns
Elems(seq) == {seq[k] : k \in 1..Len(seq)}
Called == fResult /= "none"

\* lists of filters that compile to the patterns of one kind of pathFilter
FiltersOf(type) ==
    [k \in 1..Len(IncludeOf(type)) |-> Filter(IncludeOf(type)[k], INCLUDE)]
    \o [k \in 1..Len(ExcludeOf(type)) |-> Filter(ExcludeOf(type)[k], EXCLUDE)]
\* the lists of filters that the filters of the other kind are changed to
OtherFilterLists == SeqsUpTo(FilterPool, 1)

\* the bytes are a valid UTF-8 text: of the bytes the blobs hold, the ASCII ones
ValidUtf8(data) == \A i \in 1..Len(data) : data[i] < 128
\* base64.b64decode and bytes.decode both succeed on the content of the blob
Decodes(blob) == blob.padded /\ ValidUtf8(blob.data)

\* the files of the blob specification whose task has returned
Handled == {i \in 1..Len(hFiles) : hState[i] = "returned"}
\* the blob is discarded for its marker or for having no content
Discarded(blob) == blob.encoding /= "base64" \/ ~blob.has_content
\* the blob has the marker and content that decodes to a text that is not empty
GoodBlob(blob) ==
    /\ blob.encoding = "base64"
    /\ blob.has_content
    /\ Decodes(blob)
    /\ blob.data /= <<>>

\* the retry run: the places of its log, by kind
LogPlaces == 1..Len(rLog)
Calls == {i \in LogPlaces : rLog[i].e = "call"}
Answers == {i \in LogPlaces : rLog[i].e = "resp"}
IsTransient(resp) == IsFault(resp) /\ ~IsRateLimit(resp)
RetryEnded == rFrame.pc \in {"returned", "raised", "fell"}
\* the sleeps that directly follow an answer that is a failure and no rate limit
BackoffSleeps ==
    {j \in LogPlaces : /\ rLog[j].e = "sleep"
                       /\ j > 1
                       /\ rLog[j - 1].e = "resp"
                       /\ IsTransient(rLog[j - 1].resp)}
BackoffDelays == {2 ^ k : k \in 0..6}

(***************************************************************************)
(* The properties                                                          *)
(***************************************************************************)

\* C1: when the getTree of a directory that is not the root fails on every
\* attempt (and nothing else fails), scrape does not raise, and when it has
\* returned no file beneath that directory is in the result while every accepted
\* file outside it is.
C1_SubtreeFailureIsAbsorbed ==
    \A d \in TreeShas \ {RootSha} :
        (AllFailed(d) /\ tasks[d].st = "raised" /\ OnlyFails(d)) =>
            /\ scrapePc /= "raised"
            /\ scrapePc = "returned" =>
                 /\ \A b \in BlobShas : AtOrBeneath(b, d) => ~InBucket(RemotePath(b))
                 /\ \A b \in BlobShas :
                      (Accepted(b) /\ ~AtOrBeneath(b, d)) => InBucket(RemotePath(b))

\* C2: when the getBlob of an accepted file fails transiently on all of the
\* attempts (and nothing else fails), scrape does not raise, and when it has
\* returned that file is absent from the result and every other accepted file
\* is present.
C2_BlobFailureDropsTheFile ==
    \A b \in BlobShas :
        (failed[b] = Retries /\ tasks[b].st = "raised" /\ OnlyFails(b)) =>
            /\ scrapePc /= "raised"
            /\ scrapePc = "returned" =>
                 /\ ~InBucket(RemotePath(b))
                 /\ \A c \in BlobShas \ {b} : Accepted(c) => InBucket(RemotePath(c))

\* C3: for every K < Retries, when the getBlob of an accepted file has failed
\* transiently K times and then succeeded with content that decodes (and nothing
\* else fails), the file is in the result exactly once when its task has ended.
C3_BlobSucceedsAfterKFailures ==
    \A b \in BlobShas : \A K \in 0..(Retries - 1) :
        ( /\ Accepted(b)
          /\ failed[b] = K /\ limited[b] = 0 /\ issued[b] = K + 1
          /\ tasks[b].st \in {"returned", "raised"}
          /\ OnlyFails(b) )
        => CountInBucket(RemotePath(b)) = 1

\* C4: when getBranch has failed on every attempt, scrape raises (at once, or
\* after the rate-limit sleep of the last attempt), the result stays empty and
\* neither getTree nor getBlob is ever called.
C4_BranchFailureIsFatal ==
    AllFailed("getBranch") =>
        /\ scrapePc \in {"getBranch", "raised"}
        /\ scrapePc = "getBranch" => branchRw.pc = "rl_sleep"
        /\ bucket = <<>>
        /\ \A id \in TaskIds : issued[id] = 0 /\ tasks[id].st = "none"

C4_Witness ==
    /\ AllFailed("getBranch")
    /\ scrapePc = "raised"
    /\ issued["getBranch"] = Retries

\* C5: no getTree and no getBlob call is ever issued for an entry at or beneath
\* a directory that PathFilter.match(path, DIRECTORY) rejects.
C5_NoCallBeneathRejectedDirectory ==
    \A d \in TreeShas \ {RootSha} :
        ~Match(pathFilter, RemotePath(d), DIRECTORY) =>
            \A id \in TaskIds : AtOrBeneath(id, d) => issued[id] = 0

C5_Witness ==
    /\ scrapePc = "returned"
    /\ ~Match(pathFilter, RemotePath("Tdocs"), DIRECTORY)
    /\ Match(pathFilter, RemotePath("Tlib"), DIRECTORY)
    /\ issued["Be"] > 0
    /\ issued["Bc"] = 0

\* the tasks with a getTree or getBlob call in flight, and the tasks inside
\* `async with sem`
Outstanding == {id \in TaskIds : tasks[id].rw.pc = "call"}
Holders == {id \in TaskIds : tasks[id].st = "retry"}

\* C6: at most max_workers getTree/getBlob calls are outstanding at once, and
\* every outstanding call is made by a task that holds one of the max_workers
\* permits.
C6_ConcurrencyBound ==
    tasks[RootSha].st /= "none" =>
        /\ Cardinality(Outstanding) <= max_workers
        /\ Outstanding \subseteq Holders
        /\ sem >= 0
        /\ sem + Cardinality(Holders) = max_workers

C6_Witness ==
    /\ Cardinality(Outstanding) = max_workers
    /\ max_workers > 1
    /\ \E id \in TaskIds : tasks[id].st = "wait_sem"

\* C7: for a kind with no include pattern and at least one exclude pattern,
\* match returns true for every path that matches none of the exclude patterns.
C7_ExcludeOnlyPasses ==
    ( /\ Called
      /\ IncludeOf(fKind) = <<>>
      /\ ExcludeOf(fKind) /= <<>>
      /\ \A p \in Elems(ExcludeOf(fKind)) : ~Search(p, fPath) )
    => fResult = "True"

\* C8: a path that matches an exclude pattern of the kind asked about is
\* rejected, whatever include patterns it matches.
C8_ExcludeRejects ==
    (Called /\ \E p \in Elems(ExcludeOf(fKind)) : Search(p, fPath))
        => fResult = "False"

C8_Witness ==
    /\ Called
    /\ \E p \in Elems(ExcludeOf(fKind)) : Search(p, fPath)
    /\ \E p \in Elems(IncludeOf(fKind)) : Search(p, fPath)
    /\ fKind = FILE

\* C9: with no pattern at all for a kind, match returns true for every path of
\* that kind, whatever the patterns of the other kind are.
C9_NoPatternPasses ==
    (Called /\ IncludeOf(fKind) = <<>> /\ ExcludeOf(fKind) = <<>>)
        => fResult = "True"

C9_Witness ==
    /\ Called
    /\ fKind = DIRECTORY
    /\ IncludeOf(DIRECTORY) = <<>> /\ ExcludeOf(DIRECTORY) = <<>>
    /\ \E p \in Elems(ExcludeOf(FILE)) : Search(p, fPath)
    /\ IncludeOf(FILE) /= <<>>

\* C10: for a kind with at least one include pattern, match returns true if and
\* only if the path matches some include pattern and no exclude pattern.
C10_IncludeAndNotExclude ==
    (Called /\ IncludeOf(fKind) /= <<>>) =>
        ( fResult = "True" <=>
            /\ \E p \in Elems(IncludeOf(fKind)) : Search(p, fPath)
            /\ \A p \in Elems(ExcludeOf(fKind)) : ~Search(p, fPath) )

C10_Witness ==
    /\ Called
    /\ fKind = DIRECTORY
    /\ IncludeOf(DIRECTORY) /= <<>>
    /\ ExcludeOf(DIRECTORY) /= <<>>
    /\ fResult = "True"

\* C11: every RepoFile of the result has a path that PathFilter.match(path,
\* FILE) accepts.
C11_ResultFilesPassTheFileFilter ==
    \A i \in 1..Len(bucket) : Match(pathFilter, bucket[i].path, FILE)

C11_Witness ==
    /\ scrapePc = "returned"
    /\ pathFilter.include_file_patterns /= <<>>
    /\ InBucket(RemotePath("Ba"))
    /\ tasks["Bb"].st = "none"
    /\ ~Match(pathFilter, RemotePath("Bb"), FILE)

\* C12: the result holds at most one RepoFile of each path, whatever the
\* interleaving of the tasks and whatever calls were retried.
C12_OneFilePerPath ==
    \A i, j \in 1..Len(bucket) : bucket[i].path = bucket[j].path => i = j

C12_Witness ==
    /\ scrapePc = "returned"
    /\ Len(bucket) >= 3
    /\ failed["Ba"] + limited["Ba"] > 0
    /\ failed["Tlib"] + limited["Tlib"] > 0
    /\ InBucket(RemotePath("Ba"))
    /\ InBucket(RemotePath("Be"))

\* C13: after a call has failed with a rate-limit failure (403 or 429) whose
\* reset header lies T seconds ahead, no later call of the operation is made
\* before T seconds have passed.
C13_NoCallBeforeReset ==
    \A i, j \in LogPlaces :
        ( /\ i < j
          /\ rLog[i].e = "resp"
          /\ IsRateLimit(rLog[i].resp)
          /\ rLog[i].resp.has_reset
          /\ rLog[j].e = "call" )
        => rLog[j].t >= rLog[i].t + rLog[i].resp.reset_in

C13_Witness ==
    /\ rVariant = "walker"
    /\ \E i, j \in LogPlaces :
         /\ i < j
         /\ rLog[i].e = "resp"
         /\ rLog[i].resp = RespLimitLate
         /\ rLog[j].e = "call"

\* C14: a retry run whose failures were all rate-limit failures does not give
\* up: it ends only by returning the result of the operation.
C14_RateLimitNeverExhausts ==
    (RetryEnded /\ \A i \in Answers : IsFault(rLog[i].resp) => IsRateLimit(rLog[i].resp))
    => rFrame.pc = "returned"

C16_BoundedCallsNoneAfterSuccess ==
    /\ Cardinality(Calls) <= rRetries
    /\ \A i, j \in LogPlaces :
         (i < j /\ rLog[i].e = "resp" /\ ~IsFault(rLog[i].resp)) => rLog[j].e /= "call"

C16_Witness ==
    /\ rVariant = "walker"
    /\ rFrame.pc = "returned"
    /\ Cardinality(Calls) = 2
    /\ rLog[Len(rLog)].e = "sleep"
    /\ rLog[Len(rLog) - 1].e = "resp"
    /\ ~IsFault(rLog[Len(rLog) - 1].resp)

\* C17: in the retries_wrapper of the walker, the sleep after every failure
\* that is no rate limit (a status error other than 403 and 429 included) is a
\* power of 2 seconds, at most 120, and longer than the sleep after the previous
\* such failure.
C17_BackoffGrows ==
    rVariant = "walker" =>
        \A j \in BackoffSleeps :
            /\ rLog[j].d \in BackoffDelays
            /\ rLog[j].d <= MaxBackoff
            /\ \A i \in BackoffSleeps : i < j => rLog[i].d < rLog[j].d

\* C18: a task holds a permit of the limiter only while one of its remote calls
\* is outstanding: no task holds a permit while it sleeps after a failed call,
\* in a backoff sleep or in a rate-limit wait.
C18_NoPermitWhileBackingOff ==
    \A id \in TaskIds :
        tasks[id].st = "retry" => ~(Sleeping(tasks[id].rw) /\ ~tasks[id].rw.ret)

\* C19: the _walk of a directory has not ended, by returning or by raising,
\* while a task it created is still running.
C19_WalkOutlivesItsTasks ==
    \A d \in TreeShas :
        Finished(tasks[d]) => \A c \in ChildrenOf(tasks, d) : Finished(tasks[c])

\* C20: a file that was scheduled and whose blob was fetched, but whose content
\* does not decode (bad base64, or bytes that are no valid UTF-8), is not in the
\* result, and its task does not raise.
C20_UndecodableFileIsOmitted ==
    \A b \in BlobShas :
        ( /\ tasks[b].st = "returned"
          /\ BlobOf(b).encoding = "base64"
          /\ BlobOf(b).has_content
          /\ ~Decodes(BlobOf(b)) )
        => ~InBucket(RemotePath(b))

\* C21: every file that the walk has scheduled (reached, and accepted by the
\* file filter), whose blob was fetched with the base64 marker and decodes, to
\* any text, the empty one included, is in the result exactly once when its
\* task has returned.
C21_DecodedFileAppendedOnce ==
    \A b \in BlobShas :
        ( /\ tasks[b].st = "returned"
          /\ tasks[b].rw.pc = "returned"
          /\ BlobOf(b).encoding = "base64"
          /\ BlobOf(b).has_content
          /\ Decodes(BlobOf(b)) )
        => CountInBucket(RemotePath(b)) = 1

\* C22: when every call succeeds, the set of the paths in the result of scrape
\* is fixed by the filters and the remote tree alone: it is the same whatever
\* the interleaving of the tasks was.
C22_SamePathsInEveryInterleaving ==
    (scrapePc = "returned" /\ AllSucceed) => BucketPaths = HarvestOf[pathFilter]

C22_Witness ==
    /\ scrapePc = "returned"
    /\ AllSucceed
    /\ Len(bucket) = 3
    /\ bucket[1].path = RemotePath("Be")
    /\ bucket[3].path = RemotePath("Ba")

\* C23: with the file filter include \.txt$ and the directory filter exclude
\* ^docs, on a root tree that holds a.txt, b.png and docs/, and calls that all
\* succeed, scrape does not raise, returns exactly one RepoFile, a.txt with its
\* decoded content, and never issues a call for docs/ or anything beneath it.
C23_EndToEndScenario ==
    (pathFilter = ScenarioFilter /\ AllSucceed) =>
        /\ scrapePc /= "raised"
        /\ \A id \in TaskIds : AtOrBeneath(id, "Tdocs") => issued[id] = 0
        /\ scrapePc = "returned" =>
             bucket = <<RepoFile(<<"a", ".", "t", "x", "t">>, <<104, 105>>)>>

C23_Witness ==
    /\ pathFilter = ScenarioFilter
    /\ AllSucceed
    /\ scrapePc = "returned"
    /\ tasks["Ba"].st = "returned"
    /\ tasks["Bb"].st = "none"
    /\ tasks["Tdocs"].st = "none"

\* C24: the value of PathFilter.match(path, FILE) is the same when the
\* directory filters are changed to any other list, and the value of
\* PathFilter.match(path, DIRECTORY) is the same when the file filters are.
C24_KindsAreIndependent ==
    Called =>
        \A other \in OtherFilterLists :
            /\ fKind = FILE =>
                 (Match(NewPathFilter(FiltersOf(FILE), other), fPath, FILE)
                    <=> fResult = "True")
            /\ fKind = DIRECTORY =>
                 (Match(NewPathFilter(other, FiltersOf(DIRECTORY)), fPath, DIRECTORY)
                    <=> fResult = "True")

C24_Witness ==
    /\ Called
    /\ fKind = FILE
    /\ fResult = "True"
    /\ IncludeOf(FILE) /= <<>>
    /\ ExcludeOf(DIRECTORY) /= <<>>
    /\ ~Match(pathFilter, fPath, DIRECTORY)

C26_WrongMarkerOrNoContentIsOmitted ==
    \A i \in Handled :
        /\ Discarded(hFiles[i].blob) => ~InBucket(hFiles[i].path)
        /\ GoodBlob(hFiles[i].blob) => CountInBucket(hFiles[i].path) = 1

C26_Witness ==
    \E i, j, k \in Handled :
        /\ hFiles[i].blob.encoding /= "base64" /\ hFiles[i].blob.has_content
        /\ hFiles[j].blob.encoding = "base64" /\ ~hFiles[j].blob.has_content
        /\ GoodBlob(hFiles[k].blob)
        /\ bucket = <<RepoFile(hFiles[k].path, hFiles[k].blob.data)>>

C28_PathIsTheRouteJoined ==
    /\ \A id \in TaskIds : tasks[id].st /= "none" => tasks[id].path = RemotePath(id)
    /\ \A i \in 1..Len(bucket) :
         /\ \E b \in BlobShas : tasks[b].st = "returned" /\ bucket[i].path = RemotePath(b)
         /\ bucket[i].path[1] /= "/"
         /\ bucket[i].path[Len(bucket[i].path)] /= "/"

C28_Witness ==
    /\ scrapePc = "returned"
    /\ InBucket(<<"l", "i", "b", "/", "s", "u", "b", "/", "e", ".", "t", "x", "t">>)
    /\ InBucket(<<"a", ".", "t", "x", "t">>)

\* C29: while every call succeeds at its first attempt, no call is issued
\* twice and none for an entry that is not reached and accepted; when scrape
\* has returned, getBranch was called exactly once, getTree exactly once for the
\* root and for each reached directory that the directory filter accepts, and
\* getBlob exactly once for each reached file that the file filter accepts.
C29_OneCallEach ==
    AllSucceed =>
        /\ \A t \in Targets : issued[t] <= CallsOf[pathFilter][t]
        /\ scrapePc = "returned" => issued = CallsOf[pathFilter]

C29_Witness ==
    /\ AllSucceed
    /\ scrapePc = "returned"
    /\ pathFilter.include_directory_patterns /= <<>>
    /\ issued["getBranch"] = 1
    /\ issued["Tsub"] = 1
    /\ issued["Be"] = 1
    /\ issued["Tdocs"] = 0
    /\ issued["Bb"] = 0

\* C30: when the request of a retries_wrapper of the walker has failed with an
\* HTTP status error on every attempt, the error that the run raises, which
\* scrape passes on to its caller unchanged, is the httpx.HTTPStatusError.
C30_RaisesTheHTTPStatusError ==
    ( /\ rVariant = "walker"
      /\ rFrame.pc = "raised"
      /\ Cardinality(Answers) = rRetries
      /\ \A i \in Answers : RequestOutcome(rLog[i].resp) = "HTTPStatusError" )
    => rError = "HTTPStatusError"

\* C31: for every limiter size, down to one permit with directories nested in
\* directories, a walk task holds no permit while it waits for its children,
\* and when every remote call is answered scrape ends, by returning or raising.
C31_ScrapeTerminates ==
    /\ [](\A id \in TaskIds : tasks[id].st = "gather" =>
              sem + Cardinality(Holders) = max_workers)
    /\ <>ScrapeOver

C31_Witness ==
    /\ max_workers = 1
    /\ scrapePc = "returned"
    /\ tasks["Tlib"].st = "returned"
    /\ tasks["Tsub"].st = "returned"
    /\ tasks["Be"].st = "returned"
    /\ failed["Tlib"] > 0

\* C32: every file of the result lies beneath directories that the directory
\* filter accepts, each by its full path (the root has no path and is never
\* asked about): a file that the file filter accepts beneath a rejected
\* directory is not in the result.
C32_AncestorsAccepted ==
    \A i \in 1..Len(bucket) :
        \E b \in BlobShas :
            /\ bucket[i].path = RemotePath(b)
            /\ \A d \in DirsAbove(b) : Match(pathFilter, RemotePath(d), DIRECTORY)

C32_Witness ==
    /\ scrapePc = "returned"
    /\ InBucket(RemotePath("Ba"))
    /\ Match(pathFilter, RemotePath("Be"), FILE)
    /\ ~Match(pathFilter, RemotePath("Tlib"), DIRECTORY)
    /\ ~InBucket(RemotePath("Be"))
    /\ tasks["Be"].st = "none"

\* C33: an entry of a tree that is neither a blob nor a tree, as the submodule
\* ext of the root, gets no task and no remote call and puts nothing in the
\* result, whatever the filters are.
C33_OtherEntryIgnored ==
    \A c \in OtherShas :
        /\ tasks[c].st = "none"
        /\ issued[c] = 0
        /\ ~InBucket(RemotePath(c))
        /\ \A i \in 1..Len(bucket) : \E b \in BlobShas : bucket[i].path = RemotePath(b)

C33_Witness ==
    /\ scrapePc = "returned"
    /\ pathFilter = NewPathFilter(<<>>, <<>>)
    /\ \A t \in TreeShas : tasks[t].st = "returned"
    /\ Match(pathFilter, RemotePath("Cext"), DIRECTORY)
    /\ Match(pathFilter, RemotePath("Cext"), FILE)
    /\ tasks["Cext"].st = "none"

\* SafeExtractor.aextract is the run of the retries_wrapper of utils with 3
\* attempts
SafeRun == rVariant = "utils" /\ rRetries = ExtractRetries
Sleeps == {i \in LogPlaces : rLog[i].e = "sleep"}
LastAnswer == rLog[Len(rLog)]
AllAnswersFail == \A i \in Answers : IsFault(rLog[i].resp)

\* C34: SafeExtractor.aextract raises nothing; it calls the wrapped extractor
\* at most 3 times, returns its result exactly when one of these calls
\* succeeds, and returns the empty list exactly when all 3 have failed.
C34_AextractNeverRaises ==
    SafeRun =>
        LET out == Aextract(rFrame, rError) IN
        /\ out.raises = "none"
        /\ Cardinality(Calls) <= ExtractRetries
        /\ out = Returns("result") <=>
               (LastAnswer.e = "resp" /\ ~IsFault(LastAnswer.resp))
        /\ out = Returns("empty") <=>
               (Cardinality(Answers) = ExtractRetries /\ AllAnswersFail)
        /\ out = Pending <=>
               (Cardinality(Answers) < ExtractRetries /\ AllAnswersFail)

C34_Witness ==
    /\ SafeRun
    /\ Aextract(rFrame, rError) = Returns("empty")
    /\ Cardinality(Answers) = ExtractRetries
    /\ rError = "HTTPStatusError"
    /\ \E i \in Answers : RequestOutcome(rLog[i].resp) = "Exception"

C36_RateLimitWaitOnlyFor403And429 ==
    rVariant = "utils" =>
        \A j \in Sleeps :
            LET resp == rLog[j - 1].resp
                attempt == Cardinality({i \in Calls : i < j}) - 1
            IN rLog[j].d = IF IsRateLimit(resp) THEN RateLimitDelay(resp)
                           ELSE Min(2 ^ (BackoffShift + attempt), MaxBackoff)

====
